---- MODULE Spec2Model ----
(***************************************************************************)
(* Model of the resume-analysis backend: the POST /api/analyze route, the  *)
(* AnalysisService orchestrator, PDFService text extraction, the           *)
(* looks_like_resume gate and GroqService (prompt, LLM call, reply parsing *)
(* and AnalysisResult validation).                                         *)
(*                                                                         *)
(* Texts are sequences of tokens.  A token [k, n, w] stands for n          *)
(* characters of one class: whitespace ("sp", "nl", "cr"), a null byte     *)
(* ("nul"), a block of letters without any keyword ("fill"), a keyword as  *)
(* written in the document ("kw", w is the written word), an email-shaped  *)
(* word ("email") or a block of n digits ("digits").                       *)
(***************************************************************************)
EXTENDS Integers, Sequences, FiniteSets, TLC

VARIABLES
    rpc,          \* route position of each request
    upload,       \* the UploadFile of each request: name, content, position
    jobDescription, \* the jobDescription form field of each request
    pdf_content,  \* bytes handed to AnalysisService.analyze_resume
    job_desc,     \* job description handed to the services
    stage,        \* position of the run inside AnalysisService.analyze_resume
    resume_text,  \* text returned by extract_text_from_pdf
    prompt,       \* prompt rendered by _build_analysis_prompt
    reply,        \* outcome of chat.completions.create
    analysis_data,\* dict returned by _parse_response
    result,       \* AnalysisResult returned by the run
    raised,       \* exception as raised by the component that detected it
    error,        \* exception that leaves AnalysisService.analyze_resume
    extract_calls,\* number of calls of extract_text_from_pdf
    llm_calls,    \* number of calls of chat.completions.create
    http_status,  \* status code answered by the route, 0 while unanswered
    http_detail,  \* body of the answer: error and details
    call,         \* a direct call of one function: its name and arguments
    returned      \* what that call returned or raised

vars == <<rpc, upload, jobDescription, pdf_content, job_desc, stage,
          resume_text, prompt, reply, analysis_data, result, raised, error,
          extract_calls, llm_calls, http_status, http_detail, call, returned>>

\* The variables of a direct function call.
fnVars == <<call, returned>>

\* Number of requests (pipeline runs) of a behaviour.
NumRuns == 1

Runs == 1..NumRuns

None == "None"

-----------------------------------------------------------------------------
(* Text tokens *)

Tok(k, n, w) == [k |-> k, n |-> n, w |-> w]

SP == Tok("sp", 1, "")
NL == Tok("nl", 1, "")
CR == Tok("cr", 1, "")
NUL == Tok("nul", 1, "")
Spaces(n) == Tok("sp", n, "")
Fill(n) == Tok("fill", n, "")
Kw(w) == Tok("kw", Len(w), w)
Email == Tok("email", 16, "")
Digits(n) == Tok("digits", n, "")

\* Characters matched by \s of re and removed by str.strip.
IsSpace(t) == t.k \in {"sp", "nl", "cr"}

RECURSIVE TextLen(_)
\* len(text)
TextLen(text) ==
    IF text = <<>> THEN 0 ELSE Head(text).n + TextLen(Tail(text))

RECURSIVE LStrip(_)
LStrip(text) ==
    IF text = <<>> THEN <<>>
    ELSE IF IsSpace(Head(text)) THEN LStrip(Tail(text)) ELSE text

RECURSIVE RStrip(_)
RStrip(text) ==
    IF text = <<>> THEN <<>>
    ELSE IF IsSpace(text[Len(text)])
         THEN RStrip(SubSeq(text, 1, Len(text) - 1))
         ELSE text

\* str.strip()
Strip(text) == RStrip(LStrip(text))

RECURSIVE CollapseSpace(_)
\* re.sub(r'\s+', ' ', text)
CollapseSpace(text) ==
    IF text = <<>> THEN <<>>
    ELSE IF IsSpace(Head(text))
         THEN <<SP>> \o CollapseSpace(LStrip(text))
         ELSE <<Head(text)>> \o CollapseSpace(Tail(text))

RECURSIVE RemoveNul(_)
\* text.replace('\x00', '')
RemoveNul(text) ==
    IF text = <<>> THEN <<>>
    ELSE IF Head(text).k = "nul" THEN RemoveNul(Tail(text))
         ELSE <<Head(text)>> \o RemoveNul(Tail(text))

RECURSIVE UnifyNewlines(_)
\* text.replace('\r\n', '\n')
UnifyNewlines(text) ==
    IF Len(text) < 2 THEN text
    ELSE IF Head(text).k = "cr" /\ text[2].k = "nl"
         THEN <<NL>> \o UnifyNewlines(Tail(Tail(text)))
         ELSE <<Head(text)>> \o UnifyNewlines(Tail(text))

clean_text(text) ==
    IF text = <<>> THEN <<>>
    ELSE Strip(UnifyNewlines(RemoveNul(CollapseSpace(text))))

-----------------------------------------------------------------------------
(* utils/resume_validator.py *)

RESUME_KEYWORDS ==
    {"resume", "curriculum vitae", "education", "experience", "skills",
     "projects", "internship", "certification", "objective", "summary"}

\* Keyword spellings that occur in documents.
WrittenKeywords ==
    RESUME_KEYWORDS \cup {"Education", "Experience", "Skills", "SUMMARY"}

\* str.lower() on the written keywords.
Lower(w) ==
    CASE w = "Education" -> "education"
      [] w = "Experience" -> "experience"
      [] w = "Skills" -> "skills"
      [] w = "SUMMARY" -> "summary"
      [] OTHER -> w

\* kw in text_lower
KeywordIn(kw, text) ==
    \E i \in 1..Len(text) : text[i].k = "kw" /\ Lower(text[i].w) = kw

\* Tokens made of word characters only at both ends.
IsWord(t) == t.k \in {"fill", "kw", "email", "digits"}

\* re.search(r"\b[\w\.-]+@[\w\.-]+\.\w{2,4}\b", text)
EmailIn(text) ==
    \E i \in 1..Len(text) :
        /\ text[i].k = "email"
        /\ (i < Len(text) => ~IsWord(text[i + 1]))

\* re.search(r"\b\d{10}\b", text)
PhoneIn(text) ==
    \E i \in 1..Len(text) :
        /\ text[i].k = "digits" /\ text[i].n = 10
        /\ (i > 1 => ~IsWord(text[i - 1]))
        /\ (i < Len(text) => ~IsWord(text[i + 1]))

MinResumeLen == 500
MinScore == 3

\* EvidenceScore that adds one point for every occurrence of a keyword.
EvidenceScore_PerOccurrence(text) ==
    Cardinality({i \in 1..Len(text) :
                    text[i].k = "kw" /\ Lower(text[i].w) \in RESUME_KEYWORDS})
        + (IF EmailIn(text) THEN 1 ELSE 0)
        + (IF PhoneIn(text) THEN 1 ELSE 0)

EvidenceScore(text) ==
    Cardinality({kw \in RESUME_KEYWORDS : KeywordIn(kw, text)})
        + (IF EmailIn(text) THEN 1 ELSE 0)
        + (IF PhoneIn(text) THEN 1 ELSE 0)

\* looks_like_resume without the length test.
looks_like_resume_NoLengthTest(text) ==
    IF text = <<>> THEN FALSE
    ELSE EvidenceScore(text) >= MinScore

looks_like_resume(text) ==
    IF text = <<>> \/ TextLen(text) < MinResumeLen THEN FALSE
    ELSE EvidenceScore(text) >= MinScore

-----------------------------------------------------------------------------
(* Exceptions: exceptions/custom_exceptions.py and the foreign ones *)

Exc(type, message, details) ==
    [type |-> type, message |-> message, details |-> details]

NoExc == Exc(None, None, None)

\* str(e): ResumeAnalyzerError passes its message to Exception.__init__.
Str(e) == e.message

PDFExtractionError(message, details) == Exc("PDFExtractionError", message, details)
GroqAPIError(message, details) == Exc("GroqAPIError", message, details)
FileValidationError(message, details) == Exc("FileValidationError", message, details)
AnalysisError(message, details) == Exc("AnalysisError", message, details)

\* Outcome of a call: a returned value or a raised exception.
Return(v) == [ok |-> TRUE, val |-> v, exc |-> NoExc]
Raise(e) == [ok |-> FALSE, val |-> <<>>, exc |-> e]

-----------------------------------------------------------------------------
(* services/pdf_service.py *)

MinExtractedLen == 50

\* A page: page.extract_text() raises, or returns the page's text.
PageFail == [fails |-> TRUE, text |-> <<>>]
Page(text) == [fails |-> FALSE, text |-> text]

\* A document: how PdfReader(pdf_file) ends ("ok", "PdfReadError" or another
\* exception), is_encrypted, and the pages.
Doc(open, encrypted, pages) ==
    [open |-> open, encrypted |-> encrypted, pages |-> pages]

RECURSIVE TextParts_StopAtFailure(_)
\* The loop over the pages when a failing page ends the loop.
TextParts_StopAtFailure(pages) ==
    IF pages = <<>> \/ Head(pages).fails THEN <<>>
    ELSE IF Head(pages).text = <<>>
         THEN TextParts_StopAtFailure(Tail(pages))
         ELSE <<Head(pages).text>> \o TextParts_StopAtFailure(Tail(pages))

RECURSIVE TextParts(_)
\* The loop over the pages: a failing page is skipped, an empty text is
\* not appended.
TextParts(pages) ==
    IF pages = <<>> THEN <<>>
    ELSE IF Head(pages).fails \/ Head(pages).text = <<>>
         THEN TextParts(Tail(pages))
         ELSE <<Head(pages).text>> \o TextParts(Tail(pages))

RECURSIVE Join(_)
\* "\n".join(text_parts)
Join(parts) ==
    IF parts = <<>> THEN <<>>
    ELSE IF Len(parts) = 1 THEN Head(parts)
         ELSE Head(parts) \o <<NL>> \o Join(Tail(parts))

\* ExtractBody that returns the cleaned text whatever its length.
ExtractBody_NoLengthCheck(doc) ==
    IF doc.open = "PdfReadError"
    THEN Raise(Exc("PdfReadError", "EOF marker not found", None))
    ELSE IF doc.open # "ok"
    THEN Raise(Exc("Exception", "unsupported stream", None))
    ELSE IF doc.encrypted
    THEN Raise(PDFExtractionError("PDF is encrypted",
                   "Cannot extract text from encrypted PDFs"))
    ELSE IF Len(doc.pages) = 0
    THEN Raise(PDFExtractionError("PDF has no pages",
                   "The PDF file appears to be empty"))
    ELSE Return(clean_text(Join(TextParts(doc.pages))))

\* ExtractBody that measures the joined text before it is cleaned.
ExtractBody_RawLength(doc) ==
    IF doc.open = "PdfReadError"
    THEN Raise(Exc("PdfReadError", "EOF marker not found", None))
    ELSE IF doc.open # "ok"
    THEN Raise(Exc("Exception", "unsupported stream", None))
    ELSE IF doc.encrypted
    THEN Raise(PDFExtractionError("PDF is encrypted",
                   "Cannot extract text from encrypted PDFs"))
    ELSE IF Len(doc.pages) = 0
    THEN Raise(PDFExtractionError("PDF has no pages",
                   "The PDF file appears to be empty"))
    ELSE LET raw == Join(TextParts(doc.pages))
         IN  IF raw = <<>> \/ TextLen(raw) < MinExtractedLen
             THEN Raise(PDFExtractionError(
                      "Insufficient text extracted from PDF",
                      "The PDF might be scanned or image-based. Try using a text-based PDF."))
             ELSE Return(clean_text(raw))

\* The try block of extract_text_from_pdf.
ExtractBody(doc) ==
    IF doc.open = "PdfReadError"
    THEN Raise(Exc("PdfReadError", "EOF marker not found", None))
    ELSE IF doc.open # "ok"
    THEN Raise(Exc("Exception", "unsupported stream", None))
    ELSE IF doc.encrypted
    THEN Raise(PDFExtractionError("PDF is encrypted",
                   "Cannot extract text from encrypted PDFs"))
    ELSE IF Len(doc.pages) = 0
    THEN Raise(PDFExtractionError("PDF has no pages",
                   "The PDF file appears to be empty"))
    ELSE LET full_text == clean_text(Join(TextParts(doc.pages)))
         IN  IF full_text = <<>> \/ TextLen(Strip(full_text)) < MinExtractedLen
             THEN Raise(PDFExtractionError(
                      "Insufficient text extracted from PDF",
                      "The PDF might be scanned or image-based. Try using a text-based PDF."))
             ELSE Return(full_text)

\* The except clauses of extract_text_from_pdf.
ExtractHandlers(e) ==
    IF e.type = "PdfReadError"
    THEN PDFExtractionError("Failed to read PDF file",
             "The file might be corrupted or not a valid PDF")
    ELSE IF e.type = "PDFExtractionError" THEN e
    ELSE PDFExtractionError("Unexpected error during PDF extraction", Str(e))

extract_text_from_pdf(doc) ==
    LET body == ExtractBody(doc)
    IN  IF body.ok THEN body ELSE Raise(ExtractHandlers(body.exc))

\* The page texts of the documents of the model.
ResumePage ==
    <<Fill(460), SP, Kw("Experience"), SP, Kw("Education"), NL, Kw("Skills"),
      SP, Email, SP, Digits(10)>>
SecondPage == <<Fill(300), SP, SP, Kw("projects"), NUL, CR, NL>>
EssayPage == <<Fill(350), NL, NL, Fill(350)>>
TwoEvidencePage == <<Fill(500), SP, Kw("SUMMARY"), SP, Digits(10)>>
MidPage == <<Kw("resume"), SP, Kw("skills"), SP, Kw("projects"), SP, Fill(100)>>
ShortPage == <<Fill(30), SP, Kw("resume")>>
BlankPage == <<SP, NL, CR, NL>>

Documents ==
    { Doc("PdfReadError", FALSE, <<>>),
      Doc("Exception", FALSE, <<>>),
      Doc("ok", TRUE, <<Page(ResumePage)>>),
      Doc("ok", FALSE, <<>>),
      Doc("ok", FALSE, <<PageFail, PageFail>>),
      Doc("ok", FALSE, <<Page(ShortPage)>>),
      Doc("ok", FALSE, <<Page(BlankPage), Page(<<>>)>>),
      Doc("ok", FALSE, <<Page(EssayPage)>>),
      Doc("ok", FALSE, <<Page(MidPage)>>),
      Doc("ok", FALSE, <<Page(TwoEvidencePage)>>),
      Doc("ok", FALSE, <<Page(ResumePage), Page(SecondPage)>>),
      Doc("ok", FALSE, <<PageFail, Page(ResumePage)>>) }

-----------------------------------------------------------------------------
(* JSON values of a model reply *)

JInt(i) == [t |-> "int", i |-> i, l |-> <<>>]
JList(l) == [t |-> "list", i |-> 0, l |-> l]
JNull == [t |-> "null", i |-> 0, l |-> <<>>]

\* A top-level JSON value: an object with its members d, a string or an array
\* that holds the words s, or a number.
JObject(d) == [t |-> "object", d |-> d, s |-> {}]
JString(s) == [t |-> "string", d |-> <<>>, s |-> s]
JArray(s) == [t |-> "array", d |-> <<>>, s |-> s]
JNumber == [t |-> "number", d |-> <<>>, s |-> {}]

\* Reply tokens: whitespace, a ``` marker, prose without braces, a brace in
\* prose, and the text of one JSON value.
RTok(k, v) == [k |-> k, v |-> v]
RWs == RTok("ws", JNumber)
RFence == RTok("fence", JNumber)
RWord == RTok("word", JNumber)
RLBrace == RTok("lbrace", JNumber)
RRBrace == RTok("rbrace", JNumber)
RJson(v) == RTok("json", v)

IsSpaceR(t) == t.k = "ws"

RECURSIVE LStripR(_)
LStripR(c) ==
    IF c = <<>> THEN <<>>
    ELSE IF IsSpaceR(Head(c)) THEN LStripR(Tail(c)) ELSE c

RECURSIVE RStripR(_)
RStripR(c) ==
    IF c = <<>> THEN <<>>
    ELSE IF IsSpaceR(c[Len(c)]) THEN RStripR(SubSeq(c, 1, Len(c) - 1)) ELSE c

\* response_content.strip()
StripR(c) == RStripR(LStripR(c))

HasLBrace(t) == t.k = "lbrace" \/ (t.k = "json" /\ t.v.t = "object")
HasRBrace(t) == t.k = "rbrace" \/ (t.k = "json" /\ t.v.t = "object")

\* content.find("{"): index of the first token with a "{", -1 if none.
FindLBrace(c) ==
    IF \E i \in 1..Len(c) : HasLBrace(c[i])
    THEN CHOOSE i \in 1..Len(c) :
             HasLBrace(c[i]) /\ \A j \in 1..(i - 1) : ~HasLBrace(c[j])
    ELSE -1

\* content.rfind("}") + 1: index of the last token with a "}", 0 if none.
RFindRBrace(c) ==
    IF \E i \in 1..Len(c) : HasRBrace(c[i])
    THEN CHOOSE i \in 1..Len(c) :
             HasRBrace(c[i]) /\ \A j \in (i + 1)..Len(c) : ~HasRBrace(c[j])
    ELSE 0

\* Unfence that drops the ``` markers only and keeps what stands between.
Unfence_MarkersOnly(content) ==
    IF content # <<>> /\ Head(content).k = "fence"
    THEN LET rest == Tail(content)
         IN  IF rest # <<>> /\ rest[Len(rest)].k = "fence"
             THEN SubSeq(rest, 1, Len(rest) - 1)
             ELSE rest
    ELSE content

\* The removal of the markdown code block.
Unfence(content) ==
    IF content # <<>> /\ Head(content).k = "fence"
    THEN LET start == FindLBrace(content)
             end == RFindRBrace(content)
         IN  IF start # -1 /\ end >= start
             THEN SubSeq(content, start, end)
             ELSE content
    ELSE content

\* json.loads(content): one JSON value with optional whitespace around it.
json_loads(content) ==
    LET c == StripR(content)
    IN  IF Len(c) = 1 /\ c[1].k = "json"
        THEN Return(c[1].v)
        ELSE Raise(Exc("JSONDecodeError", "Expecting value", None))

required_fields ==
    <<"atsScore", "strengths", "improvements", "missingKeywords", "suggestions">>

\* field in data
FieldIn(field, data) ==
    IF data.t = "object" THEN field \in DOMAIN data.d ELSE field \in data.s

MissingFields(data) ==
    {i \in 1..Len(required_fields) : ~FieldIn(required_fields[i], data)}

Min(S) == CHOOSE x \in S : \A y \in S : x <= y

\* CheckRequired whose error does not say which field is missing.
CheckRequired_Unnamed(data) ==
    IF data.t = "number"
    THEN Raise(Exc("TypeError", "argument of type 'int' is not iterable", None))
    ELSE IF MissingFields(data) # {}
    THEN Raise(Exc("ValueError", "Missing required fields", None))
    ELSE Return(data)

\* The loop over required_fields.
CheckRequired(data) ==
    IF data.t = "number"
    THEN Raise(Exc("TypeError", "argument of type 'int' is not iterable", None))
    ELSE IF MissingFields(data) # {}
    THEN Raise(Exc("ValueError",
             "Missing required field: " \o required_fields[Min(MissingFields(data))],
             None))
    ELSE Return(data)

\* _parse_response that hands the trimmed reply to json.loads as it is.
_parse_response_NoUnfence(response_content) ==
    LET loaded == json_loads(StripR(response_content))
    IN  IF loaded.ok THEN CheckRequired(loaded.val) ELSE loaded

_parse_response(response_content) ==
    LET loaded == json_loads(Unfence(StripR(response_content)))
    IN  IF loaded.ok THEN CheckRequired(loaded.val) ELSE loaded

-----------------------------------------------------------------------------
(* schemas/resume.py *)

MinAtsScore == 0
MaxAtsScore == 100
MinItems == 1

NonEmptyLists == {"strengths", "improvements", "suggestions"}

\* FieldValid without the le=100 bound of atsScore.
FieldValid_NoUpperBound(field, v) ==
    IF field = "atsScore"
    THEN v.t = "int" /\ v.i >= 0
    ELSE IF field \in {"strengths", "improvements", "suggestions"}
    THEN v.t = "list" /\ Len(v.l) >= 1
    ELSE v.t = "list"

\* The constraint of one field of AnalysisResult on the value v.
FieldValid(field, v) ==
    IF field = "atsScore"
    THEN v.t = "int" /\ v.i >= MinAtsScore /\ v.i <= MaxAtsScore
    ELSE IF field \in NonEmptyLists
    THEN v.t = "list" /\ Len(v.l) >= MinItems
    ELSE v.t = "list"

InvalidFields(d) ==
    {i \in 1..Len(required_fields) :
        ~FieldValid(required_fields[i], d[required_fields[i]])}

NoResult ==
    [atsScore |-> -1, strengths |-> <<>>, improvements |-> <<>>,
     missingKeywords |-> <<>>, suggestions |-> <<>>]

\* AnalysisResult(**analysis_data)
AnalysisResult(data) ==
    IF data.t # "object"
    THEN Raise(Exc("TypeError", "argument after ** must be a mapping", None))
    ELSE IF InvalidFields(data.d) # {}
    THEN Raise(Exc("ValidationError",
             "validation error for AnalysisResult: "
                 \o required_fields[Min(InvalidFields(data.d))],
             None))
    ELSE Return([atsScore |-> data.d.atsScore.i,
                 strengths |-> data.d.strengths.l,
                 improvements |-> data.d.improvements.l,
                 missingKeywords |-> data.d.missingKeywords.l,
                 suggestions |-> data.d.suggestions.l])

-----------------------------------------------------------------------------
(* services/groq_service.py *)

NoPrompt ==
    [resume |-> <<>>, jd_header |-> FALSE, jd |-> <<>>, jd_clause |-> FALSE,
     jd_bullet |-> FALSE]

\* _build_analysis_prompt that renders the job-description section always.
_build_analysis_prompt_AlwaysSection(text, job_description) ==
    [resume |-> text,
     jd_header |-> TRUE,
     jd |-> job_description,
     jd_clause |-> job_description # <<>>,
     jd_bullet |-> job_description # <<>>]

\* The f-string of the prompt: the resume text and, for a non-empty job
\* description, the "Job Description:" section, the " from the job
\* description" clause and the alignment bullet.
_build_analysis_prompt(text, job_description) ==
    [resume |-> text,
     jd_header |-> job_description # <<>>,
     jd |-> job_description,
     jd_clause |-> job_description # <<>>,
     jd_bullet |-> job_description # <<>>]

\* What chat.completions.create does: api is "ok" or the exception it
\* raises; choices is the number of choices of the response; null says that
\* message.content is None; content is the text of message.content.
LLMReply(api, choices, null, content) ==
    [api |-> api, choices |-> choices, null |-> null, content |-> content]

NoReply == LLMReply(None, 0, FALSE, <<>>)

\* The call has been issued and the upstream does not answer.
Stalled == LLMReply("stalled", 0, FALSE, <<>>)

\* The call, response.choices[0].message.content and the len() of the log
\* line after it.
ResponseContent(rep) ==
    IF rep.api = "APITimeoutError"
    THEN Raise(Exc("APITimeoutError", "Request timed out.", None))
    ELSE IF rep.api # "ok"
    THEN Raise(Exc(rep.api, "Error code: 429", None))
    ELSE IF rep.choices = 0
    THEN Raise(Exc("IndexError", "list index out of range", None))
    ELSE IF rep.null
    THEN Raise(Exc("TypeError", "object of type 'NoneType' has no len()", None))
    ELSE Return(rep.content)

\* The except clauses of GroqService.analyze_resume.
GroqHandlers(e) ==
    IF e.type = "JSONDecodeError"
    THEN GroqAPIError("Failed to parse Groq API response",
             "Invalid JSON format: " \o Str(e))
    ELSE GroqAPIError("Failed to analyze resume with Groq API", Str(e))

-----------------------------------------------------------------------------
(* services/analysis_service.py *)

\* The except clauses of AnalysisService.analyze_resume.
OrchestratorHandlers(e) ==
    IF e.type = "AnalysisError" THEN e
    ELSE AnalysisError("Unexpected error during analysis", Str(e))

-----------------------------------------------------------------------------
(* utils/validators.py and core/config.py *)

MAX_FILE_SIZE_MB == 10
max_file_size_bytes == MAX_FILE_SIZE_MB * 1024 * 1024
allowed_file_types_list == {".pdf"}
MaxJobDescriptionLen == 10000

\* An UploadFile: the filename split at its dots (<<>> when there is none),
\* the size of the content, the read position and the document the content
\* encodes.
File(filename, size, doc) ==
    [filename |-> filename, size |-> size, pos |-> 0, doc |-> doc]

EmptyDoc == Doc("PdfReadError", FALSE, <<>>)
NoFile == File(<<>>, 0, EmptyDoc)

\* The bytes of a content: their number and the document they encode.
Bytes(size, doc) == [size |-> size, doc |-> doc]

\* str.lower() on the filename extensions.
LowerExt(x) == IF x = "PDF" THEN "pdf" ELSE x

\* f".{file.filename.split('.')[-1].lower()}"
file_extension(file) == "." \o LowerExt(file.filename[Len(file.filename)])

\* await file.read(): the bytes from the position on.
FileRead(file) ==
    IF file.pos = 0 THEN Bytes(file.size, file.doc)
    ELSE Bytes(file.size - file.pos, EmptyDoc)

\* validate_pdf_file without the seek(0) after the read.
validate_pdf_file_NoSeek(file) ==
    IF file.filename = <<>>
    THEN [out |-> Raise(FileValidationError("File has no filename", None)),
          file |-> file]
    ELSE IF file_extension(file) \notin allowed_file_types_list
    THEN [out |-> Raise(FileValidationError(
                      "Invalid file type. Allowed types: .pdf",
                      "Received: " \o file_extension(file))),
          file |-> file]
    ELSE LET file_size == FileRead(file).size
             after == [file EXCEPT !.pos = file.size]
         IN  IF file_size = 0
             THEN [out |-> Raise(FileValidationError("File is empty", None)),
                   file |-> after]
             ELSE IF file_size > max_file_size_bytes
             THEN [out |-> Raise(FileValidationError(
                               "File too large. Maximum size: 10MB",
                               "File size in MB")),
                   file |-> after]
             ELSE [out |-> Return(<<>>), file |-> after]

\* validate_pdf_file: the outcome and the file as the call leaves it (read to
\* the end, then seek(0), once the name checks have passed).
validate_pdf_file(file) ==
    IF file.filename = <<>>
    THEN [out |-> Raise(FileValidationError("File has no filename", None)),
          file |-> file]
    ELSE IF file_extension(file) \notin allowed_file_types_list
    THEN [out |-> Raise(FileValidationError(
                      "Invalid file type. Allowed types: .pdf",
                      "Received: " \o file_extension(file))),
          file |-> file]
    ELSE LET file_size == FileRead(file).size
             after == [file EXCEPT !.pos = 0]
         IN  IF file_size = 0
             THEN [out |-> Raise(FileValidationError("File is empty", None)),
                   file |-> after]
             ELSE IF file_size > max_file_size_bytes
             THEN [out |-> Raise(FileValidationError(
                               "File too large. Maximum size: 10MB",
                               "File size in MB")),
                   file |-> after]
             ELSE [out |-> Return(<<>>), file |-> after]

RECURSIVE Prefix(_, _)
\* text[:n]
Prefix(text, n) ==
    IF text = <<>> \/ n <= 0 THEN <<>>
    ELSE IF Head(text).n <= n
         THEN <<Head(text)>> \o Prefix(Tail(text), n - Head(text).n)
         ELSE <<[Head(text) EXCEPT !.n = n]>>

validate_job_description(job_description) ==
    LET stripped == Strip(job_description)
    IN  IF TextLen(stripped) > MaxJobDescriptionLen
        THEN Prefix(stripped, MaxJobDescriptionLen)
        ELSE stripped

-----------------------------------------------------------------------------
(* api/routes/resume.py *)

Answer(status, err, details) ==
    [status |-> status, error |-> err, details |-> details]

\* The except clauses of the analyze_resume route.
RouteHandlers(e) ==
    IF e.type \in {"FileValidationError", "PDFExtractionError", "AnalysisError"}
    THEN Answer(400, e.message, e.details)
    ELSE IF e.type = "GroqAPIError"
    THEN Answer(500, "AI analysis failed", e.details)
    ELSE Answer(500, "Internal server error",
             "An unexpected error occurred during analysis")

-----------------------------------------------------------------------------
(* The inputs of a request *)

ResumeDoc == Doc("ok", FALSE, <<Page(ResumePage), Page(SecondPage)>>)

Uploads ==
    {File(<<"cv", "pdf">>, 2048, d) : d \in Documents}
    \cup { File(<<>>, 2048, ResumeDoc),
           File(<<"cv", "docx">>, 2048, ResumeDoc),
           File(<<"cv">>, 2048, ResumeDoc),
           File(<<"cv", "PDF">>, 2048, Doc("ok", FALSE, <<Page(MidPage)>>)),
           File(<<"cv", "pdf">>, 0, EmptyDoc),
           File(<<"cv", "pdf">>, max_file_size_bytes + 1, ResumeDoc) }

JobDescriptions == {<<SP>>, <<SP, Fill(40), NL>>}

GoodObject ==
    [atsScore |-> JInt(75), strengths |-> JList(<<"a">>),
     improvements |-> JList(<<"b">>), missingKeywords |-> JList(<<>>),
     suggestions |-> JList(<<"c">>)]

\* The object d without its member f.
Without(d, f) == [k \in DOMAIN d \ {f} |-> d[k]]

\* Objects with all five fields, one of them violating its constraint.
InvalidObjects ==
    { [GoodObject EXCEPT !.atsScore = JInt(150)],
      [GoodObject EXCEPT !.atsScore = JInt(-1)],
      [GoodObject EXCEPT !.atsScore = JNull],
      [GoodObject EXCEPT !.strengths = JList(<<>>)],
      [GoodObject EXCEPT !.improvements = JList(<<>>)],
      [GoodObject EXCEPT !.suggestions = JList(<<>>)],
      [GoodObject EXCEPT !.missingKeywords = JNull] }

ValidObjects ==
    { GoodObject,
      [GoodObject EXCEPT !.atsScore = JInt(0)],
      [GoodObject EXCEPT !.atsScore = JInt(100),
                         !.missingKeywords = JList(<<"k">>)] }

\* Objects that lack a required field.
IncompleteObjects ==
    { Without(GoodObject, "suggestions"),
      Without(GoodObject, "atsScore"),
      Without(Without(GoodObject, "strengths"), "improvements"),
      Without([GoodObject EXCEPT !.atsScore = JInt(150)], "missingKeywords") }

Objects == ValidObjects \cup InvalidObjects \cup IncompleteObjects

\* Texts of message.content.
Contents ==
    {<<RJson(JObject(d))>> : d \in Objects}
    \cup { <<RWs, RJson(JObject(GoodObject)), RWs>>,
           <<RFence, RWord, RWs, RJson(JObject(GoodObject)), RWs, RFence>>,
           <<RFence, RWord, RFence>>,
           <<RWord, RWs, RJson(JObject(GoodObject))>>,
           <<RWord, RWs, RWord>>,
           <<RLBrace, RWord>>,
           <<>>,
           <<RWs>>,
           <<RJson(JString(
               {"atsScore", "strengths", "improvements", "missingKeywords",
                "suggestions"}))>>,
           <<RJson(JArray({"atsScore"}))>>,
           <<RJson(JNumber)>> }

\* Outcomes of the LLM call.
Replies ==
    {LLMReply("ok", 1, FALSE, c) : c \in Contents}
    \cup { LLMReply("APITimeoutError", 0, FALSE, <<>>),
           LLMReply("RateLimitError", 0, FALSE, <<>>),
           LLMReply("ok", 0, FALSE, <<>>),
           LLMReply("ok", 1, TRUE, <<>>) }

-----------------------------------------------------------------------------
(* The state machine *)

\* No direct function call is under way.
NoCall == [fn |-> None]
NoReturn == [done |-> FALSE]

\* The services after construction and the requests before they arrive.
InitRuns(R) ==
    /\ rpc = [r \in R |-> "idle"]
    /\ upload = [r \in R |-> NoFile]
    /\ jobDescription = [r \in R |-> <<>>]
    /\ pdf_content = [r \in R |-> Bytes(0, EmptyDoc)]
    /\ job_desc = [r \in R |-> <<>>]
    /\ stage = [r \in R |-> "NotStarted"]
    /\ resume_text = [r \in R |-> <<>>]
    /\ prompt = [r \in R |-> NoPrompt]
    /\ reply = [r \in R |-> NoReply]
    /\ analysis_data = [r \in R |-> JNumber]
    /\ result = [r \in R |-> NoResult]
    /\ raised = [r \in R |-> NoExc]
    /\ error = [r \in R |-> NoExc]
    /\ extract_calls = [r \in R |-> 0]
    /\ llm_calls = [r \in R |-> 0]
    /\ http_status = [r \in R |-> 0]
    /\ http_detail = [r \in R |-> Answer(0, None, None)]

Init ==
    /\ InitRuns(Runs)
    /\ call = NoCall
    /\ returned = NoReturn

routeVars == <<rpc, upload, jobDescription, pdf_content, job_desc,
               http_status, http_detail>>

\* The route answers with an HTTPException built from the exception e.
RouteRaises(r, e) ==
    /\ rpc' = [rpc EXCEPT ![r] = "responded"]
    /\ http_status' = [http_status EXCEPT ![r] = RouteHandlers(e).status]
    /\ http_detail' = [http_detail EXCEPT ![r] = RouteHandlers(e)]

\* A POST /api/analyze arrives with a file of files and a jobDescription
\* field of descriptions.
RequestOf(r, files, descriptions) ==
    /\ rpc[r] = "idle"
    /\ \E f \in files, jd \in descriptions :
           /\ upload' = [upload EXCEPT ![r] = f]
           /\ jobDescription' = [jobDescription EXCEPT ![r] = jd]
    /\ rpc' = [rpc EXCEPT ![r] = "validate"]
    /\ UNCHANGED <<pdf_content, job_desc, stage, resume_text, prompt, reply,
                   analysis_data, result, raised, error, extract_calls,
                   llm_calls, http_status, http_detail>>
    /\ UNCHANGED fnVars

\* A POST /api/analyze arrives with a file and a jobDescription field.
Request(r) == RequestOf(r, Uploads, JobDescriptions)

\* Route step 1: await validate_pdf_file(resume).
ValidateFile(r) ==
    /\ rpc[r] = "validate"
    /\ LET v == validate_pdf_file(upload[r])
       IN  /\ upload' = [upload EXCEPT ![r] = v.file]
           /\ IF v.out.ok
              THEN /\ rpc' = [rpc EXCEPT ![r] = "read"]
                   /\ UNCHANGED <<http_status, http_detail>>
              ELSE RouteRaises(r, v.out.exc)
    /\ UNCHANGED <<jobDescription, pdf_content, job_desc, stage, resume_text,
                   prompt, reply, analysis_data, result, raised, error,
                   extract_calls, llm_calls>>
    /\ UNCHANGED fnVars

\* Route steps 2 to 4: validate_job_description, await resume.read() (which
\* may fail with an I/O error) and the call of analysis_service.analyze_resume.
EnterService(r) ==
    /\ rpc[r] = "read"
    /\ job_desc' = [job_desc EXCEPT ![r] = validate_job_description(jobDescription[r])]
    /\ \E io \in {"ok", "OSError"} :
           IF io = "ok"
           THEN /\ pdf_content' = [pdf_content EXCEPT ![r] = FileRead(upload[r])]
                /\ upload' = [upload EXCEPT ![r].pos = upload[r].size]
                /\ rpc' = [rpc EXCEPT ![r] = "analyze"]
                /\ stage' = [stage EXCEPT ![r] = "Received"]
                /\ UNCHANGED <<http_status, http_detail>>
           ELSE /\ RouteRaises(r, Exc("OSError", "read of closed file", None))
                /\ UNCHANGED <<pdf_content, upload, stage>>
    /\ UNCHANGED <<jobDescription, resume_text, prompt, reply, analysis_data,
                   result, raised, error, extract_calls, llm_calls>>
    /\ UNCHANGED fnVars

\* The exception e of a component unwinds through the except clauses of
\* AnalysisService.analyze_resume and leaves it.
Fail(r, e) ==
    /\ raised' = [raised EXCEPT ![r] = e]
    /\ error' = [error EXCEPT ![r] = OrchestratorHandlers(e)]
    /\ stage' = [stage EXCEPT ![r] = "Failed"]

\* Extract that hands the text straight to the LLM step, skipping step 2/3.
Extract_SkipGate(r) ==
    /\ stage[r] = "Received"
    /\ extract_calls' = [extract_calls EXCEPT ![r] = @ + 1]
    /\ LET out == extract_text_from_pdf(pdf_content[r].doc)
       IN  IF out.ok
           THEN /\ resume_text' = [resume_text EXCEPT ![r] = out.val]
                /\ stage' = [stage EXCEPT ![r] = "Classified"]
                /\ UNCHANGED <<raised, error>>
           ELSE /\ Fail(r, out.exc)
                /\ UNCHANGED resume_text
    /\ UNCHANGED <<routeVars, prompt, reply, analysis_data, result, llm_calls>>
    /\ UNCHANGED fnVars

\* Step 1/3: resume_text = await pdf_service.extract_text_from_pdf(pdf_content)
Extract(r) ==
    /\ stage[r] = "Received"
    /\ extract_calls' = [extract_calls EXCEPT ![r] = @ + 1]
    /\ LET out == extract_text_from_pdf(pdf_content[r].doc)
       IN  IF out.ok
           THEN /\ resume_text' = [resume_text EXCEPT ![r] = out.val]
                /\ stage' = [stage EXCEPT ![r] = "Extracted"]
                /\ UNCHANGED <<raised, error>>
           ELSE /\ Fail(r, out.exc)
                /\ UNCHANGED resume_text
    /\ UNCHANGED <<routeVars, prompt, reply, analysis_data, result, llm_calls>>
    /\ UNCHANGED fnVars

\* Classify that only logs the warning when the text is not a resume.
Classify_WarnOnly(r) ==
    /\ stage[r] = "Extracted"
    /\ IF Strip(resume_text[r]) = <<>>
       THEN Fail(r, AnalysisError("No text extracted from PDF",
                        "The PDF might be empty or image-based"))
       ELSE /\ stage' = [stage EXCEPT ![r] = "Classified"]
            /\ UNCHANGED <<raised, error>>
    /\ UNCHANGED <<routeVars, resume_text, prompt, reply, analysis_data,
                   result, extract_calls, llm_calls>>
    /\ UNCHANGED fnVars

\* The empty-text check and step 2/3: looks_like_resume(resume_text).
Classify(r) ==
    /\ stage[r] = "Extracted"
    /\ IF Strip(resume_text[r]) = <<>>
       THEN Fail(r, AnalysisError("No text extracted from PDF",
                        "The PDF might be empty or image-based"))
       ELSE IF ~looks_like_resume(resume_text[r])
       THEN Fail(r, AnalysisError("Invalid document",
                        "Uploaded file is not a resume. Please upload a valid resume PDF."))
       ELSE /\ stage' = [stage EXCEPT ![r] = "Classified"]
            /\ UNCHANGED <<raised, error>>
    /\ UNCHANGED <<routeVars, resume_text, prompt, reply, analysis_data,
                   result, extract_calls, llm_calls>>
    /\ UNCHANGED fnVars

\* Step 3/3 enters GroqService.analyze_resume, which builds the prompt.
BuildPrompt(r) ==
    /\ stage[r] = "Classified"
    /\ prompt' = [prompt EXCEPT ![r] =
                      _build_analysis_prompt(resume_text[r], job_desc[r])]
    /\ stage' = [stage EXCEPT ![r] = "Prompted"]
    /\ UNCHANGED <<routeVars, resume_text, reply, analysis_data, result,
                   raised, error, extract_calls, llm_calls>>
    /\ UNCHANGED fnVars

\* CallLLM that issues the request a second time when the first one fails.
CallLLM_Retry(r) ==
    /\ stage[r] = "Prompted"
    /\ reply[r] # Stalled
    /\ llm_calls' = [llm_calls EXCEPT ![r] = @ + 1]
    /\ \E rep \in Replies :
           /\ reply' = [reply EXCEPT ![r] = rep]
           /\ IF ResponseContent(rep).ok
              THEN /\ stage' = [stage EXCEPT ![r] = "Replied"]
                   /\ UNCHANGED <<raised, error>>
              ELSE IF llm_calls[r] = 0
              THEN UNCHANGED <<stage, raised, error>>
              ELSE Fail(r, GroqHandlers(ResponseContent(rep).exc))
    /\ UNCHANGED <<routeVars, resume_text, prompt, analysis_data, result,
                   extract_calls>>
    /\ UNCHANGED fnVars

\* self.client.chat.completions.create(...), which ends in one of replies,
\* and the reading of the content.
CallLLMOf(r, replies) ==
    /\ stage[r] = "Prompted"
    /\ reply[r] = NoReply
    /\ llm_calls' = [llm_calls EXCEPT ![r] = @ + 1]
    /\ \E rep \in replies :
           /\ reply' = [reply EXCEPT ![r] = rep]
           /\ IF ResponseContent(rep).ok
              THEN /\ stage' = [stage EXCEPT ![r] = "Replied"]
                   /\ UNCHANGED <<raised, error>>
              ELSE Fail(r, GroqHandlers(ResponseContent(rep).exc))
    /\ UNCHANGED <<routeVars, resume_text, prompt, analysis_data, result,
                   extract_calls>>
    /\ UNCHANGED fnVars

\* self.client.chat.completions.create(...) and the reading of the content.
CallLLM(r) == CallLLMOf(r, Replies)

\* Parse on a service that keeps the reply of the latest call in a field of
\* the shared GroqService instance: the run parses the reply of any run.
Parse_SharedReply(r) ==
    /\ stage[r] = "Replied"
    /\ \E q \in DOMAIN reply :
           /\ ResponseContent(reply[q]).ok
           /\ LET out == _parse_response(reply[q].content)
              IN  IF out.ok
                  THEN /\ analysis_data' = [analysis_data EXCEPT ![r] = out.val]
                       /\ stage' = [stage EXCEPT ![r] = "Parsed"]
                       /\ UNCHANGED <<raised, error>>
                  ELSE /\ Fail(r, GroqHandlers(out.exc))
                       /\ UNCHANGED analysis_data
    /\ UNCHANGED <<routeVars, resume_text, prompt, reply, result,
                   extract_calls, llm_calls>>
    /\ UNCHANGED fnVars

\* self.client.chat.completions.create(...) when the upstream accepts the
\* request and never answers: neither the client (groq_service.py:18) nor the
\* call (groq_service.py:94) is given a timeout, so the call does not return.
StallLLM(r) ==
    /\ stage[r] = "Prompted"
    /\ reply[r] = NoReply
    /\ llm_calls' = [llm_calls EXCEPT ![r] = @ + 1]
    /\ reply' = [reply EXCEPT ![r] = Stalled]
    /\ UNCHANGED <<routeVars, stage, resume_text, prompt, analysis_data,
                   result, raised, error, extract_calls>>
    /\ UNCHANGED fnVars

\* analysis_data = self._parse_response(response_content)
Parse(r) ==
    /\ stage[r] = "Replied"
    /\ LET out == _parse_response(reply[r].content)
       IN  IF out.ok
           THEN /\ analysis_data' = [analysis_data EXCEPT ![r] = out.val]
                /\ stage' = [stage EXCEPT ![r] = "Parsed"]
                /\ UNCHANGED <<raised, error>>
           ELSE /\ Fail(r, GroqHandlers(out.exc))
                /\ UNCHANGED analysis_data
    /\ UNCHANGED <<routeVars, resume_text, prompt, reply, result,
                   extract_calls, llm_calls>>
    /\ UNCHANGED fnVars

\* result = AnalysisResult(**analysis_data)
Validate(r) ==
    /\ stage[r] = "Parsed"
    /\ LET out == AnalysisResult(analysis_data[r])
       IN  IF out.ok
           THEN /\ result' = [result EXCEPT ![r] = out.val]
                /\ stage' = [stage EXCEPT ![r] = "Validated"]
                /\ UNCHANGED <<raised, error>>
           ELSE /\ Fail(r, GroqHandlers(out.exc))
                /\ UNCHANGED result
    /\ UNCHANGED <<routeVars, resume_text, prompt, reply, analysis_data,
                   extract_calls, llm_calls>>
    /\ UNCHANGED fnVars

\* The result is returned by GroqService and by AnalysisService.
ReturnResult(r) ==
    /\ stage[r] = "Validated"
    /\ stage' = [stage EXCEPT ![r] = "Done"]
    /\ UNCHANGED <<routeVars, resume_text, prompt, reply, analysis_data,
                   result, raised, error, extract_calls, llm_calls>>
    /\ UNCHANGED fnVars

\* The route returns the result or maps the exception of the run.
Respond(r) ==
    /\ rpc[r] = "analyze"
    /\ stage[r] \in {"Done", "Failed"}
    /\ IF stage[r] = "Done"
       THEN /\ rpc' = [rpc EXCEPT ![r] = "responded"]
            /\ http_status' = [http_status EXCEPT ![r] = 200]
            /\ http_detail' = [http_detail EXCEPT ![r] = Answer(200, None, None)]
       ELSE RouteRaises(r, error[r])
    /\ UNCHANGED <<upload, jobDescription, pdf_content, job_desc, stage,
                   resume_text, prompt, reply, analysis_data, result, raised,
                   error, extract_calls, llm_calls>>
    /\ UNCHANGED fnVars

Next ==
    \E r \in Runs :
        \/ Request(r)
        \/ ValidateFile(r)
        \/ EnterService(r)
        \/ Extract(r)
        \/ Classify(r)
        \/ BuildPrompt(r)
        \/ CallLLM(r)
        \/ StallLLM(r)
        \/ Parse(r)
        \/ Validate(r)
        \/ ReturnResult(r)
        \/ Respond(r)

Spec == Init /\ [][Next]_vars

\* A step of a run that holds its extracted text, other than a call that the
\* upstream leaves unanswered.
Step(r) ==
    \/ Classify(r)
    \/ BuildPrompt(r)
    \/ CallLLM(r)
    \/ Parse(r)
    \/ Validate(r)
    \/ ReturnResult(r)
    \/ Respond(r)

\* The event loop runs the pending step of every such run: the synchronous
\* steps end, and a call that the upstream answers returns.
Fairness == \A r \in Runs : WF_vars(Step(r))

SpecLive == Init /\ [][Next]_vars /\ Fairness

-----------------------------------------------------------------------------
(* Concurrent requests: the event loop serves one more request than Spec,  *)
(* all of them through the global analysis_service, pdf_service and        *)
(* groq_service instances; their steps interleave in any order.            *)

ConcRuns == 1..(NumRuns + 1)

ConcUploads ==
    { File(<<"cv", "docx">>, 2048, ResumeDoc),
      File(<<"cv", "pdf">>, 2048, Doc("ok", FALSE, <<Page(EssayPage)>>)),
      File(<<"cv", "pdf">>, 2048, ResumeDoc) }

ConcJobDescriptions == {<<SP, Fill(40), NL>>}

ConcReplies ==
    { LLMReply("ok", 1, FALSE, <<RJson(JObject(GoodObject))>>),
      LLMReply("ok", 1, FALSE,
               <<RJson(JObject([GoodObject EXCEPT !.atsScore = JInt(150)]))>>),
      LLMReply("ok", 1, FALSE, <<RWord, RWs, RWord>>),
      LLMReply("APITimeoutError", 0, FALSE, <<>>) }

InitConc ==
    /\ InitRuns(ConcRuns)
    /\ call = NoCall
    /\ returned = NoReturn

NextConc ==
    \E r \in ConcRuns :
        \/ RequestOf(r, ConcUploads, ConcJobDescriptions)
        \/ ValidateFile(r)
        \/ EnterService(r)
        \/ Extract(r)
        \/ Classify(r)
        \/ BuildPrompt(r)
        \/ CallLLMOf(r, ConcReplies)
        \/ StallLLM(r)
        \/ Parse(r)
        \/ Validate(r)
        \/ ReturnResult(r)
        \/ Respond(r)

SpecConc == InitConc /\ [][NextConc]_vars

-----------------------------------------------------------------------------
(* Direct calls of the functions, with arguments of any shape *)

\* Longest run of evidence tokens of a generated text.
MaxEvidence == 3

\* All sequences over S of length at most n.
RECURSIVE SeqsUpTo(_, _)
SeqsUpTo(S, n) ==
    IF n = 0 THEN {<<>>}
    ELSE LET shorter == SeqsUpTo(S, n - 1)
         IN  shorter \cup {Append(s, x) : s \in shorter, x \in S}

EvidenceTokens ==
    {SP, Kw("resume"), Kw("Skills"), Kw("skills"), Kw("education"), Email,
     Digits(10), Digits(11)}

Padding == {<<>>, <<Spaces(30)>>}

\* Texts around the length limit of looks_like_resume: padding, a block of
\* letters, evidence tokens, padding.
ClassifierTexts ==
    {<<>>} \cup
    { lead \o <<Fill(n)>> \o ev \o trail :
        lead \in Padding, n \in {100, 470, 500},
        ev \in SeqsUpTo(EvidenceTokens, MaxEvidence), trail \in Padding }

\* Longest generated document, in pages.
MaxPages == 2

\* Pages around the 50-character limit of extract_text_from_pdf.
ExtractorPages ==
    {PageFail} \cup
    { Page(t) : t \in { <<>>, BlankPage, <<NUL>>, <<Fill(24)>>, <<Fill(25)>>,
                        <<Fill(49)>>, <<SP, Fill(50), NL>>,
                        <<Fill(24), SP, NUL, SP, Fill(24)>>,
                        <<Fill(20), Spaces(30), Fill(20)>> } }

ExtractorDocs ==
    {Doc("ok", FALSE, pages) : pages \in SeqsUpTo(ExtractorPages, MaxPages)}
    \cup { Doc("ok", TRUE, <<Page(<<Fill(50)>>)>>),
           Doc("PdfReadError", FALSE, <<>>),
           Doc("Exception", FALSE, <<>>) }

\* Job descriptions handed to _build_analysis_prompt: none, blank ones and
\* texts with inner and outer whitespace.
PromptJobDescriptions ==
    SeqsUpTo({SP, NL, Fill(40), Kw("skills")}, 2)

PromptResumeTexts == {<<Fill(60)>>, clean_text(ResumePage)}

\* The objects with any subset of the five fields, and the five-field
\* objects of the pipeline's replies.
ParserObjects ==
    {[f \in S |-> GoodObject[f]] : S \in SUBSET DOMAIN GoodObject}
    \cup ValidObjects \cup InvalidObjects

ParserValues ==
    {JObject(d) : d \in ParserObjects}
    \cup { JString({"atsScore", "strengths", "improvements",
                    "missingKeywords", "suggestions"}),
           JArray({"atsScore"}), JNumber }

\* What stands before and after the JSON text of a reply: nothing,
\* whitespace, a code fence with or without a language tag, prose, braces.
Before ==
    { <<>>, <<RWs>>, <<RFence>>, <<RFence, RWs>>, <<RFence, RWord, RWs>>,
      <<RWs, RFence, RWord, RWs>>, <<RWord, RWs>>,
      <<RFence, RWs, RWord, RWs>>, <<RWord, RWs, RFence, RWord, RWs>>,
      <<RFence, RWord, RWs, RLBrace, RWord, RRBrace, RWs>> }

After ==
    { <<>>, <<RWs>>, <<RFence>>, <<RWs, RFence>>, <<RWs, RFence, RWs>>,
      <<RWs, RWord>>, <<RWs, RFence, RWs, RWord>>,
      <<RWs, RFence, RWs, RWord, RRBrace>> }

ParserContents ==
    {pre \o <<RJson(v)>> \o post :
        pre \in Before, v \in ParserValues, post \in After}
    \cup {<<>>, <<RWs>>, <<RWord, RWs, RWord>>, <<RFence, RWord, RFence>>,
          <<RFence, RLBrace, RWord>>}

\* Longest generated argument of clean_text, in tokens.
MaxCleanTokens == 5

\* Raw texts handed to clean_text: blanks, line ends, null bytes and words
\* in any order.
RawTexts == SeqsUpTo({SP, NL, CR, NUL, Fill(3)}, MaxCleanTokens)

\* Job descriptions around the limit of validate_job_description: padding,
\* a block of letters, a gap, more letters, padding.
RawJobDescriptions ==
    {<<>>, <<SP>>} \cup
    { lead \o <<Fill(n)>> \o gap \o rest \o trail :
        lead \in Padding, n \in {40, 9990, 9999, 10000, 10001},
        gap \in {<<>>, <<SP>>, <<Spaces(30)>>},
        rest \in {<<>>, <<Fill(5)>>}, trail \in Padding }

Calls ==
    {[fn |-> "looks_like_resume", text |-> t] : t \in ClassifierTexts}
    \cup {[fn |-> "extract_text_from_pdf", doc |-> d] : d \in ExtractorDocs}
    \cup {[fn |-> "_build_analysis_prompt", resume_text |-> t,
           job_description |-> jd] :
             t \in PromptResumeTexts, jd \in PromptJobDescriptions}
    \cup {[fn |-> "_parse_response", response_content |-> c] :
             c \in ParserContents}
    \cup {[fn |-> "clean_text", raw |-> t] : t \in RawTexts}
    \cup {[fn |-> "validate_job_description", job_description |-> jd] :
             jd \in RawJobDescriptions}

InitFn ==
    /\ InitRuns(Runs)
    /\ call \in Calls
    /\ returned = NoReturn

pipelineVars ==
    <<rpc, upload, jobDescription, pdf_content, job_desc, stage, resume_text,
      prompt, reply, analysis_data, result, raised, error, extract_calls,
      llm_calls, http_status, http_detail>>

\* The call returns (or raises) out.
Returns(out) ==
    /\ ~returned.done
    /\ returned' = [done |-> TRUE, out |-> out]
    /\ UNCHANGED <<call, pipelineVars>>

Call_looks_like_resume ==
    /\ call.fn = "looks_like_resume"
    /\ Returns(looks_like_resume(call.text))

Call_extract_text_from_pdf ==
    /\ call.fn = "extract_text_from_pdf"
    /\ Returns(extract_text_from_pdf(call.doc))

Call_build_analysis_prompt ==
    /\ call.fn = "_build_analysis_prompt"
    /\ Returns(_build_analysis_prompt(call.resume_text, call.job_description))

Call_parse_response ==
    /\ call.fn = "_parse_response"
    /\ Returns(_parse_response(call.response_content))

Call_clean_text ==
    /\ call.fn = "clean_text"
    /\ Returns(clean_text(call.raw))

Call_validate_job_description ==
    /\ call.fn = "validate_job_description"
    /\ Returns(validate_job_description(call.job_description))

NextFn ==
    \/ Call_looks_like_resume
    \/ Call_extract_text_from_pdf
    \/ Call_build_analysis_prompt
    \/ Call_parse_response
    \/ Call_clean_text
    \/ Call_validate_job_description

SpecFn == InitFn /\ [][NextFn]_vars

-----------------------------------------------------------------------------
(* Properties *)

\* The failure kinds of the error taxonomy, read off the exception.
Kind(e) ==
    CASE e.type = "PDFExtractionError" -> "extraction"
      [] e.type = "AnalysisError" /\ e.message = "Invalid document" -> "not_a_resume"
      [] e.type = "AnalysisError" /\ e.message = "No text extracted from PDF" -> "extraction"
      [] e.type = "AnalysisError" -> "unexpected"
      [] e.type = "GroqAPIError" /\ e.message = "Failed to parse Groq API response"
            -> "malformed_reply"
      [] e.type = "GroqAPIError" -> "llm_unavailable"
      [] OTHER -> "none"

\* What GroqService.analyze_resume does with the outcome rep of the LLM call,
\* before its except clauses: the result or the first exception.
GroqOutcome(rep) ==
    LET c == ResponseContent(rep)
    IN  IF ~c.ok THEN c
        ELSE LET p == _parse_response(c.val)
             IN  IF ~p.ok THEN p ELSE AnalysisResult(p.val)

\* The exception that leaves AnalysisService.analyze_resume for a failing rep.
RunFailure(rep) == OrchestratorHandlers(GroqHandlers(GroqOutcome(rep).exc))

\* Classes of outcomes of the LLM call.
TransportFailure(rep) ==
    rep.api # "ok" \/ rep.choices = 0 \/ rep.null \/ rep.content = <<>>
Unparseable(rep) ==
    ~TransportFailure(rep) /\ ~GroqOutcome(rep).ok
        /\ GroqOutcome(rep).exc.type = "JSONDecodeError"
LacksField(rep) ==
    ~TransportFailure(rep) /\ ~GroqOutcome(rep).ok
        /\ GroqOutcome(rep).exc.type = "ValueError"
ViolatesConstraint(rep) ==
    ~TransportFailure(rep) /\ ~GroqOutcome(rep).ok
        /\ GroqOutcome(rep).exc.type = "ValidationError"

\* The extractor returned a text to the run r.
TextExtracted(r) ==
    /\ stage[r] \notin {"NotStarted", "Received"}
    /\ ~(stage[r] = "Failed" /\ raised[r].type = "PDFExtractionError")

\* The run r called the LLM.
LLMCalled(r) == llm_calls[r] > 0

\* C1: when looks_like_resume is false for the extracted text, the LLM is
\* never called in that run and the run ends in the not-a-resume failure (it
\* is at the gate or has failed there, nowhere else).
C1_GateBlocksLLM ==
    \A r \in Runs :
        (TextExtracted(r) /\ ~looks_like_resume(resume_text[r])) =>
            /\ llm_calls[r] = 0
            /\ reply[r] = NoReply
            /\ stage[r] \in {"Extracted", "Failed"}
            /\ stage[r] = "Failed" => Kind(error[r]) = "not_a_resume"

C1_Witness ==
    \E r \in Runs :
        /\ stage[r] = "Failed"
        /\ TextExtracted(r)
        /\ TextLen(resume_text[r]) >= MinResumeLen
        /\ ~looks_like_resume(resume_text[r])
        /\ error[r].message = "Invalid document"
        /\ llm_calls[r] = 0

\* C2: every result returned by analyze_resume has atsScore in 0..100 and
\* non-empty strengths, improvements and suggestions, whatever the model
\* replied.
C2_ResultConstraints ==
    \A r \in Runs :
        stage[r] = "Done" =>
            /\ result[r].atsScore \in 0..100
            /\ Len(result[r].strengths) >= 1
            /\ Len(result[r].improvements) >= 1
            /\ Len(result[r].suggestions) >= 1

C2_Witness ==
    \E r \in Runs :
        /\ stage[r] = "Done"
        /\ result[r] = [atsScore |-> 75, strengths |-> <<"a">>,
                        improvements |-> <<"b">>, missingKeywords |-> <<>>,
                        suggestions |-> <<"c">>]

StageOrder ==
    { <<"NotStarted", "Received">>, <<"Received", "Extracted">>,
      <<"Extracted", "Classified">>, <<"Classified", "Prompted">>,
      <<"Prompted", "Replied">>, <<"Replied", "Parsed">>,
      <<"Parsed", "Validated">>, <<"Validated", "Done">> }

FailureSteps ==
    {<<s, "Failed">> : s \in {"Received", "Extracted", "Classified", "Prompted",
                              "Replied", "Parsed", "Validated"}}

\* What a run holds inside analyze_resume.
RunState(r) ==
    <<stage[r], resume_text[r], prompt[r], reply[r], analysis_data[r],
      result[r], raised[r], error[r], extract_calls[r], llm_calls[r]>>

\* C3: a run changes stage only along Received, Extracted, Classified,
\* Prompted, Replied, Parsed, Validated, Done or into Failed; an exception
\* arises only together with the move to Failed; after Done or Failed nothing
\* of the run changes any more.
C3_StageOrder ==
    [][\A r \in Runs :
          /\ stage'[r] # stage[r] =>
                <<stage[r], stage'[r]>> \in StageOrder \cup FailureSteps
          /\ error'[r] # error[r] => stage[r] # "Failed" /\ stage'[r] = "Failed"
          /\ stage[r] \in {"Done", "Failed"} => RunState(r)' = RunState(r)]_vars

C3_Witness ==
    \E r \in Runs :
        /\ rpc[r] = "responded"
        /\ stage[r] = "Done"
        /\ extract_calls[r] = 1
        /\ llm_calls[r] = 1
        /\ analysis_data[r].t = "object"

\* C4: when the text extractor fails, the failure that leaves analyze_resume
\* is the extractor's own error type (the extraction kind), not the generic
\* unexpected failure.
C4_ExtractionKindKept ==
    \A r \in Runs :
        (stage[r] = "Failed" /\ raised[r].type = "PDFExtractionError") =>
            /\ error[r].type = "PDFExtractionError"
            /\ Kind(error[r]) = "extraction"

\* C5: the failure raised by a component (extractor, gate, LLM service)
\* leaves analyze_resume with the type, message and details it was raised
\* with.
C5_PropagatedUnmodified ==
    \A r \in Runs : stage[r] = "Failed" => error[r] = raised[r]

\* C6: a transport or protocol failure of the LLM call, an empty or absent
\* content included, is detected as the llm_unavailable failure and never as
\* the JSON parse failure.
C6_TransportIsLLMUnavailable ==
    \A r \in Runs :
        (stage[r] = "Failed" /\ LLMCalled(r) /\ TransportFailure(reply[r])) =>
            /\ Kind(raised[r]) = "llm_unavailable"
            /\ raised[r].message # "Failed to parse Groq API response"
            /\ error[r].details # "Failed to parse Groq API response"

\* C7: the failure of a run whose reply has all five fields but violates a
\* value constraint differs from the failure of every run whose reply is
\* unparseable, lacks a field, or never arrived.
C7_InvalidContentDistinct ==
    \A r \in Runs :
        (stage[r] = "Failed" /\ LLMCalled(r) /\ ViolatesConstraint(reply[r])) =>
            \A q \in Replies :
                (Unparseable(q) \/ LacksField(q) \/ TransportFailure(q)) =>
                    error[r] # RunFailure(q)

\* C8: a reply that is not parseable JSON and a reply that lacks a required
\* field are both detected as the malformed_reply failure, and no result is
\* returned.
C8_MalformedReplyKind ==
    \A r \in Runs :
        (LLMCalled(r) /\ stage[r] \in {"Done", "Failed"}
            /\ (Unparseable(reply[r]) \/ LacksField(reply[r]))) =>
            /\ stage[r] = "Failed"
            /\ result[r] = NoResult
            /\ Kind(raised[r]) = "malformed_reply"

\* C9: the route answers 500 to a run that failed in the LLM call and to an
\* unanticipated exception, and 400 to extraction, not-a-resume and
\* file-validation failures.
C9_StatusCodes ==
    \A r \in Runs :
        (rpc[r] = "responded" /\ http_status[r] # 200) =>
            IF stage[r] = "Failed"
            THEN IF Kind(raised[r]) \in {"extraction", "not_a_resume"}
                 THEN http_status[r] = 400
                 ELSE http_status[r] = 500
            ELSE IF validate_pdf_file(upload[r]).out.ok
                 THEN http_status[r] = 500
                 ELSE http_status[r] = 400

\* C10: only an AnalysisError leaves analyze_resume; the generic unexpected
\* failure is produced only for an exception that is none of the typed
\* failures, and carries that exception's message as its details.
C10_OnlyUnanticipatedIsUnexpected ==
    \A r \in Runs :
        stage[r] = "Failed" =>
            /\ error[r].type \in {"AnalysisError", "PDFExtractionError", "GroqAPIError"}
            /\ error[r].message = "Unexpected error during analysis" =>
                   /\ raised[r].type \notin
                          {"PDFExtractionError", "GroqAPIError", "AnalysisError"}
                   /\ error[r].details = Str(raised[r])

\* C11: in every run extract_text_from_pdf is invoked at most once and
\* chat.completions.create at most once (once exactly when the run got past
\* that step or failed in it), and a step of a run in which one of the two
\* calls has failed invokes neither of them again.
C11_AtMostOneCall ==
    /\ [](\A r \in Runs :
            /\ extract_calls[r] = (IF stage[r] \in {"NotStarted", "Received"}
                                   THEN 0 ELSE 1)
            /\ llm_calls[r] = (IF reply[r] = NoReply THEN 0 ELSE 1)
            /\ stage[r] \in {"Replied", "Parsed", "Validated", "Done"}
                   => llm_calls[r] = 1)
    /\ [][\A r \in Runs :
            (stage[r] = "Failed"
                /\ (raised[r].type = "PDFExtractionError" \/ llm_calls[r] = 1)) =>
                /\ extract_calls'[r] = extract_calls[r]
                /\ llm_calls'[r] = llm_calls[r]]_vars

C11_Witness ==
    \E r \in Runs :
        /\ rpc[r] = "responded"
        /\ stage[r] = "Failed"
        /\ reply[r].api = "APITimeoutError"
        /\ extract_calls[r] = 1
        /\ llm_calls[r] = 1

\* The call of fn has returned.
Returned(fn) == call.fn = fn /\ returned.done

\* C12 as stated: for every text whose stripped length is below 500
\* characters looks_like_resume returns false, whatever evidence it holds.
C12_StrippedLengthBelowLimit ==
    (Returned("looks_like_resume")
        /\ TextLen(Strip(call.text)) < 500) => returned.out = FALSE

\* C12: for every text whose length, surrounding whitespace included, is
\* below 500 characters looks_like_resume returns false, whatever keywords,
\* email or phone patterns the text contains.
C12_LengthBelowLimit ==
    (Returned("looks_like_resume")
        /\ TextLen(call.text) < 500) => returned.out = FALSE

C12_Witness ==
    /\ Returned("looks_like_resume")
    /\ TextLen(call.text) = 498
    /\ call.text = Strip(call.text)
    /\ EvidenceScore(call.text) >= 3
    /\ returned.out = FALSE

\* The evidence of a text as the claim counts it: the keywords of the set
\* that occur in some spelling, an email-shaped word, a number of ten digits.
KeywordsPresent(text) ==
    {kw \in RESUME_KEYWORDS :
        \E i \in 1..Len(text) : text[i].k = "kw" /\ Lower(text[i].w) = kw}

EmailPresent(text) ==
    \E i \in 1..Len(text) :
        text[i].k = "email" /\ (i = Len(text) \/ ~IsWord(text[i + 1]))

TenDigitNumberPresent(text) ==
    \E i \in 1..Len(text) :
        /\ text[i] = Digits(10)
        /\ (i = 1 \/ ~IsWord(text[i - 1]))
        /\ (i = Len(text) \/ ~IsWord(text[i + 1]))

ClaimedScore(text) ==
    Cardinality(KeywordsPresent(text))
        + (IF EmailPresent(text) THEN 1 ELSE 0)
        + (IF TenDigitNumberPresent(text) THEN 1 ELSE 0)

NormalizedPageTexts(doc) ==
    LET good == SelectSeq(doc.pages, LAMBDA p : ~p.fails)
    IN  clean_text(Join([i \in 1..Len(good) |-> good[i].text]))

InsufficientText(out) ==
    /\ ~out.ok
    /\ out.exc.type = "PDFExtractionError"
    /\ out.exc.message = "Insufficient text extracted from PDF"

\* C14: extract_text_from_pdf never returns a text whose stripped length is
\* below 50 characters; for a readable, unencrypted document with pages whose
\* normalized page texts are shorter than 50 characters (every page failing
\* or empty included) it raises the insufficient-text PDFExtractionError.
C14_NoShortText ==
    Returned("extract_text_from_pdf") =>
        /\ returned.out.ok => TextLen(Strip(returned.out.val)) >= 50
        /\ (call.doc.open = "ok" /\ ~call.doc.encrypted /\ Len(call.doc.pages) > 0
              /\ TextLen(NormalizedPageTexts(call.doc)) < 50)
               => InsufficientText(returned.out)

\* Both pages of a two-page document fail.
C14_Witness ==
    /\ Returned("extract_text_from_pdf")
    /\ call.doc.pages = <<PageFail, PageFail>>
    /\ InsufficientText(returned.out)

\* C15: _build_analysis_prompt with a non-empty job description renders the
\* "Job Description:" section with that description verbatim; with an empty
\* one the prompt has no "Job Description:" header, no " from the job
\* description" clause and no alignment bullet.
C15_JobDescriptionSection ==
    Returned("_build_analysis_prompt") =>
        LET p == returned.out
        IN  /\ p.resume = call.resume_text
            /\ call.job_description # <<>> =>
                   p.jd_header /\ p.jd = call.job_description
            /\ call.job_description = <<>> =>
                   ~p.jd_header /\ ~p.jd_clause /\ ~p.jd_bullet /\ p.jd = <<>>

C15_Witness ==
    /\ Returned("_build_analysis_prompt")
    /\ call.job_description = <<>>
    /\ call.resume_text # <<>>
    /\ ~returned.out.jd_header

\* The reply c holds the text of exactly one JSON object, at position i.
ObjectAt(c, i) ==
    /\ i \in 1..Len(c)
    /\ c[i].k = "json" /\ c[i].v.t = "object"
    /\ \A j \in 1..Len(c) : j # i => c[j].k # "json"

HasAllFields(v) ==
    \A i \in 1..Len(required_fields) : required_fields[i] \in DOMAIN v.d

\* The reply c is the JSON object at i inside a markdown code fence: the
\* opening marker, possibly a language tag, the object, the closing marker,
\* with whitespace anywhere between and around them.
FenceWrapped(c, i) ==
    LET s == StripR(c)
        k == i - (Len(c) - Len(LStripR(c)))
    IN  /\ ObjectAt(c, i)
        /\ k \in 2..(Len(s) - 1)
        /\ s[1] = RFence /\ s[Len(s)] = RFence
        /\ \A j \in 2..(k - 1) : s[j] = RWs \/ (j = 2 /\ s[j] = RWord)
        /\ \A j \in (k + 1)..(Len(s) - 1) : s[j] = RWs

\* C16: for every JSON object with all five required fields, _parse_response
\* applied to the object inside a markdown code fence (with or without a
\* language tag, with surrounding whitespace) returns exactly that object.
C16_FencedObjectReturned ==
    Returned("_parse_response") =>
        \A i \in 1..Len(call.response_content) :
            (FenceWrapped(call.response_content, i)
                /\ HasAllFields(call.response_content[i].v)) =>
                /\ returned.out.ok
                /\ returned.out.val = call.response_content[i].v

\* "  ```json {...} ```" with an object that the schema would reject.
C16_Witness ==
    /\ Returned("_parse_response")
    /\ call.response_content =
           <<RWs, RFence, RWord, RWs,
             RJson(JObject([GoodObject EXCEPT !.atsScore = JInt(150)])),
             RWs, RFence, RWs>>
    /\ returned.out.ok
    /\ returned.out.val.d.atsScore = JInt(150)

\* The required fields that the object v lacks.
Lacking(v) ==
    {required_fields[i] : i \in 1..Len(required_fields)} \ DOMAIN v.d

\* The reply c is the text of one JSON object at i that json.loads is given
\* whole: on its own or inside a code fence.
ParsedObjectAt(c, i) ==
    /\ ObjectAt(c, i)
    /\ \/ \A j \in 1..Len(c) : j # i => c[j] = RWs
       \/ FenceWrapped(c, i)

\* C17: for every parsed JSON object that lacks at least one of the five
\* required fields, _parse_response raises a ValueError whose message names
\* a field the object lacks; when exactly one field is missing it names that
\* field.
C17_MissingFieldNamed ==
    Returned("_parse_response") =>
        \A i \in 1..Len(call.response_content) :
            LET v == call.response_content[i].v
            IN  (ParsedObjectAt(call.response_content, i) /\ Lacking(v) # {}) =>
                    /\ ~returned.out.ok
                    /\ returned.out.exc.type = "ValueError"
                    /\ \E f \in Lacking(v) :
                           returned.out.exc.message =
                               "Missing required field: " \o f
                    /\ \A f \in Lacking(v) :
                           Lacking(v) = {f} =>
                               returned.out.exc.message =
                                   "Missing required field: " \o f

\* The object without suggestions.
C17_Witness ==
    /\ Returned("_parse_response")
    /\ call.response_content = <<RJson(JObject(Without(GoodObject, "suggestions")))>>
    /\ ~returned.out.ok
    /\ returned.out.exc.message = "Missing required field: suggestions"

\* The outcome of a run.
Outcome(s, res, e) == [stage |-> s, result |-> res, error |-> e]

\* The outcome of analyze_resume for the document doc and the model reply
\* rep when it is the only run.
SoloOutcome(doc, rep) ==
    LET text == extract_text_from_pdf(doc)
    IN  IF ~text.ok
        THEN Outcome("Failed", NoResult, OrchestratorHandlers(text.exc))
        ELSE IF Strip(text.val) = <<>>
        THEN Outcome("Failed", NoResult,
                 AnalysisError("No text extracted from PDF",
                     "The PDF might be empty or image-based"))
        ELSE IF ~looks_like_resume(text.val)
        THEN Outcome("Failed", NoResult,
                 AnalysisError("Invalid document",
                     "Uploaded file is not a resume. Please upload a valid resume PDF."))
        ELSE IF GroqOutcome(rep).ok
        THEN Outcome("Done", GroqOutcome(rep).val, NoExc)
        ELSE Outcome("Failed", NoResult, RunFailure(rep))

\* Everything the request r holds, in the route and in the services.
RequestState(r) ==
    <<rpc[r], upload[r], jobDescription[r], pdf_content[r], job_desc[r],
      http_status[r], http_detail[r], RunState(r)>>

\* C18: however the steps of concurrent requests interleave, a run that has
\* ended has the outcome (result or failure) that analyze_resume has alone
\* for the run's own document and model reply, its prompt is built from its
\* own text and job description, and a step of one request changes nothing
\* that another request holds.
C18_RunsIndependent ==
    /\ [](\A r \in ConcRuns :
            /\ stage[r] \in {"Done", "Failed"} =>
                   Outcome(stage[r], result[r], error[r])
                       = SoloOutcome(upload[r].doc, reply[r])
            /\ prompt[r] # NoPrompt =>
                   prompt[r] = _build_analysis_prompt(
                                   extract_text_from_pdf(upload[r].doc).val,
                                   validate_job_description(jobDescription[r])))
    /\ [][\A r \in ConcRuns, q \in ConcRuns :
            (r # q /\ RequestState(r)' # RequestState(r)) =>
                RequestState(q)' = RequestState(q)]_vars

\* Two requests have been answered, one with a result and one with the
\* failure of its own reply.
C18_Witness ==
    \E r \in ConcRuns, q \in ConcRuns :
        /\ rpc[r] = "responded" /\ stage[r] = "Done"
        /\ rpc[q] = "responded" /\ stage[q] = "Failed"
        /\ reply[q].content = <<RWord, RWs, RWord>>
        /\ reply[r].content = <<RJson(JObject(GoodObject))>>

ProseWrapped(c, i) ==
    /\ ObjectAt(c, i)
    /\ \A j \in 1..Len(c) : j # i => c[j] \in {RWs, RWord, RFence}
    /\ \E j \in 1..Len(c) : c[j] = RWord

StartsWithFence(c) == StripR(c) # <<>> /\ Head(StripR(c)) = RFence

\* C20 as stated: for every reply that is a five-field JSON object preceded
\* and/or followed by conversational prose, whether or not the reply starts
\* with a markdown code fence, _parse_response returns that object.
C20_ProseStripped ==
    Returned("_parse_response") =>
        \A i \in 1..Len(call.response_content) :
            (ProseWrapped(call.response_content, i)
                /\ HasAllFields(call.response_content[i].v)) =>
                /\ returned.out.ok
                /\ returned.out.val = call.response_content[i].v

\* C20: for every reply that is a five-field JSON object preceded and/or
\* followed by prose without braces, _parse_response returns that object
\* when the trimmed reply starts with a markdown code fence; when it does
\* not, the reply goes to json.loads as it is and the call raises
\* JSONDecodeError.
C20_ProseStrippedAfterFence ==
    Returned("_parse_response") =>
        \A i \in 1..Len(call.response_content) :
            (ProseWrapped(call.response_content, i)
                /\ HasAllFields(call.response_content[i].v)) =>
                IF StartsWithFence(call.response_content)
                THEN /\ returned.out.ok
                     /\ returned.out.val = call.response_content[i].v
                ELSE /\ ~returned.out.ok
                     /\ returned.out.exc.type = "JSONDecodeError"

\* A fence, prose, the object, the closing fence and more prose.
C20_Witness ==
    /\ Returned("_parse_response")
    /\ call.response_content =
           <<RFence, RWs, RWord, RWs, RJson(JObject(GoodObject)),
             RWs, RFence, RWs, RWord>>
    /\ returned.out.ok
    /\ returned.out.val = JObject(GoodObject)

\* The text has no null byte, no carriage return, no whitespace at either
\* end and no two whitespace characters in a row.
Normalized(text) ==
    /\ \A i \in 1..Len(text) : text[i].k \notin {"nul", "cr"}
    /\ Strip(text) = text
    /\ \A i \in 1..Len(text) : IsSpace(text[i]) => text[i].n = 1
    /\ \A i \in 1..(Len(text) - 1) : ~(IsSpace(text[i]) /\ IsSpace(text[i + 1]))

\* C21: for every input string the text produced by clean_text, and so every
\* text returned by extract_text_from_pdf, contains no null byte, no carriage
\* return, no leading or trailing whitespace and no run of two or more
\* whitespace characters.
C21_CleanTextNormalized ==
    /\ Returned("clean_text") => Normalized(returned.out)
    /\ (Returned("extract_text_from_pdf") /\ returned.out.ok)
           => Normalized(returned.out.val)

\* The normalization of the newline-joined texts of the pages that succeeded
\* with a non-empty text, in page order.
SucceededText(doc) ==
    LET good == SelectSeq(doc.pages, LAMBDA p : ~p.fails /\ p.text # <<>>)
    IN  clean_text(Join([i \in 1..Len(good) |-> good[i].text]))

\* C22: in extract_text_from_pdf a failing page never aborts the extraction:
\* for every pattern of page successes and failures of a readable document
\* with pages, the text that is length-checked and returned is the
\* normalization of the newline-joined texts of exactly the pages that
\* succeeded with non-empty text, in page order.
C22_FailingPagesSkipped ==
    (Returned("extract_text_from_pdf")
        /\ call.doc.open = "ok" /\ ~call.doc.encrypted
        /\ Len(call.doc.pages) > 0) =>
        IF TextLen(SucceededText(call.doc)) >= 50
        THEN returned.out.ok /\ returned.out.val = SucceededText(call.doc)
        ELSE InsufficientText(returned.out)

\* The first page fails, the second one carries the text.
C22_Witness ==
    /\ Returned("extract_text_from_pdf")
    /\ call.doc.pages = <<PageFail, Page(<<SP, Fill(50), NL>>)>>
    /\ returned.out.ok
    /\ returned.out.val = <<Fill(50)>>

\* C23: for every input string the job description returned by
\* validate_job_description has at most 10,000 characters and has no leading
\* or trailing whitespace, also when the input was longer than 10,000
\* characters and was truncated.
C23_JobDescriptionTrimmed ==
    Returned("validate_job_description") =>
        /\ TextLen(returned.out) <= 10000
        /\ Strip(returned.out) = returned.out

\* The upload of the request r as it arrived, and whether it is acceptable:
\* it has a filename with an allowed extension and between 1 byte and the
\* size limit.
Uploaded(r) == [upload[r] EXCEPT !.pos = 0]

Acceptable(file) ==
    /\ file.filename # <<>>
    /\ LowerExt(file.filename[Len(file.filename)]) = "pdf"
    /\ file.size > 0
    /\ file.size <= 10 * 1024 * 1024

\* C24: a request whose file fails validate_pdf_file (no filename, extension
\* not allowed, empty file or size above the limit) never reaches text
\* extraction or the LLM call and is answered 400; when validation succeeds
\* the file position is back at 0, and the bytes handed to analyze_resume
\* are the complete uploaded content.
C24_InvalidFileStopsEarly ==
    \A r \in Runs :
        /\ (rpc[r] \notin {"idle", "validate"} /\ ~Acceptable(Uploaded(r))) =>
               /\ rpc[r] = "responded"
               /\ http_status[r] = 400
               /\ stage[r] = "NotStarted"
               /\ extract_calls[r] = 0
               /\ llm_calls[r] = 0
        /\ rpc[r] = "read" => Acceptable(Uploaded(r)) /\ upload[r].pos = 0
        /\ stage[r] # "NotStarted" =>
               /\ Acceptable(Uploaded(r))
               /\ pdf_content[r] = Bytes(upload[r].size, upload[r].doc)

\* An upload above the size limit has been answered 400.
C24_Witness ==
    \E r \in Runs :
        /\ rpc[r] = "responded"
        /\ upload[r].filename = <<"cv", "pdf">>
        /\ upload[r].size > 10 * 1024 * 1024
        /\ upload[r].pos = 0
        /\ http_status[r] = 400
        /\ stage[r] = "NotStarted"

\* C25: whenever _parse_response returns without raising, the value it
\* returns is a JSON object that has all five keys atsScore, strengths,
\* improvements, missingKeywords and suggestions; no reply whose top-level
\* JSON value is a string, a list or a number passes the field check.
C25_ReturnsFiveFieldObject ==
    (Returned("_parse_response") /\ returned.out.ok) =>
        /\ returned.out.val.t = "object"
        /\ \A i \in 1..Len(required_fields) :
               required_fields[i] \in DOMAIN returned.out.val.d

\* C26: clean_text is idempotent: for every input string s,
\* clean_text(clean_text(s)) equals clean_text(s).
C26_CleanTextIdempotent ==
    Returned("clean_text") => clean_text(returned.out) = returned.out

\* C27: the orchestrator's "No text extracted from PDF" failure is
\* unreachable: every text that extract_text_from_pdf returns to a run has
\* a stripped length of at least 50, so the empty-text check of
\* analyze_resume fires in no run.
C27_EmptyTextCheckNeverFires ==
    \A r \in Runs :
        /\ TextExtracted(r) => TextLen(Strip(resume_text[r])) >= 50
        /\ raised[r].message # "No text extracted from PDF"
        /\ error[r].message # "No text extracted from PDF"
        /\ http_detail[r].error # "No text extracted from PDF"

\* A run whose text is short, but not empty, got past the empty-text check
\* and failed at the gate.
C27_Witness ==
    \E r \in Runs :
        /\ stage[r] = "Failed"
        /\ TextExtracted(r)
        /\ TextLen(resume_text[r]) \in 50..499
        /\ raised[r].message = "Invalid document"

====
